---- MODULE Spec2Model ----
(***************************************************************************)
(* Model of worlds/kirbyam/kirby_ap_payload/ap_payload.c: the Archipelago  *)
(* mailbox poller ap_poll_mailbox_c and the item effect applier            *)
(* ap_apply_item, together with the external writer of the mailbox.        *)
(*                                                                         *)
(* Every register of the payload is a volatile location, so each access of *)
(* ap_poll_mailbox_c is a step of its own and the external writer may      *)
(* store to the mailbox between any two of them.                           *)
(***************************************************************************)
EXTENDS Integers, Sequences, FiniteSets, TLC

VARIABLES
    AP_IN_FLAG,             \* mailbox +0x04, uint32
    AP_IN_ITEM_ID,          \* mailbox +0x08, uint32
    AP_IN_PLAYER,           \* mailbox +0x0C, uint32
    AP_DEBUG_HEARTBEAT,     \* mailbox +0x10, uint32 as [hi, lo] 16-bit halves
    AP_DEBUG_LAST_ITEM_ID,  \* mailbox +0x14, uint32
    AP_DEBUG_LAST_FROM,     \* mailbox +0x18, uint32
    AP_SHARD_BITFIELD,      \* mailbox +0x00, uint32
    KIRBY_SHARD_FLAGS,      \* game state, uint8
    KIRBY_LIVES,            \* game state, uint8
    pc,                     \* position of the running ap_poll_mailbox_c call
    item,                   \* local `item` of ap_poll_mailbox_c
    from,                   \* local `from` of ap_poll_mailbox_c
    polls,                  \* history: number of ap_poll_mailbox_c calls made
    hbAtCall,               \* history: AP_DEBUG_HEARTBEAT at the latest call
    raced,                  \* history: the writer stored 1 to AP_IN_FLAG inside
                            \* the latest call, after its check, and has not
                            \* stored to AP_IN_FLAG since
    consumed,               \* history: the item ids handed to ap_apply_item
    wpc,                    \* position of the external writer
    posted,                 \* history: the item ids the conforming writer posted
    host0,                  \* history: the game state before the first call
    lastSender              \* history: `from` of the call that ran
                            \* ap_apply_item last

vars == <<AP_IN_FLAG, AP_IN_ITEM_ID, AP_IN_PLAYER, AP_DEBUG_HEARTBEAT,
          AP_DEBUG_LAST_ITEM_ID, AP_DEBUG_LAST_FROM, AP_SHARD_BITFIELD,
          KIRBY_SHARD_FLAGS, KIRBY_LIVES, pc, item, from, polls, hbAtCall,
          raced, consumed, wpc, posted, host0, lastSender>>

mailboxIn == <<AP_IN_FLAG, AP_IN_ITEM_ID, AP_IN_PLAYER>>
debugRegs == <<AP_DEBUG_HEARTBEAT, AP_DEBUG_LAST_ITEM_ID, AP_DEBUG_LAST_FROM>>
gameState == <<AP_SHARD_BITFIELD, KIRBY_SHARD_FLAGS, KIRBY_LIVES>>
locals    == <<item, from>>
writerHist == <<wpc, posted>>

(***************************************************************************)
(* Bounds of the model.                                                    *)
(***************************************************************************)
MaxPolls == 3      \* calls of ap_poll_mailbox_c in one behaviour
MaxPosts == 2      \* messages the conforming writer posts
MaxApply == 2      \* applications of one item in the applier harness

(***************************************************************************)
(* Program constants.                                                      *)
(***************************************************************************)
KIRBY_BASE_OFFSET == 3860000
UINT8 == 256       \* 2^8: the values of a uint8_t register
HALF == 65536      \* 2^16: a uint32_t counter is kept as two 16-bit halves

ITEM_1UP        == KIRBY_BASE_OFFSET + 1
ITEM_SHARD_LO   == KIRBY_BASE_OFFSET + 2
ITEM_SHARD_HI   == KIRBY_BASE_OFFSET + 9

(***************************************************************************)
(* Input values.                                                           *)
(***************************************************************************)
\* every item id class of ap_apply_item: below the range, the base itself,
\* the life item, the eight shards, just above the range, far above it
\* (2147483647 is the largest word the model checker's integers hold)
AllItemIDs == {0, 999999, 2147483647} \cup
              { KIRBY_BASE_OFFSET + k : k \in 0..10 }
\* the ids the unconstrained writer stores while the poller runs
WriterItemIDs == {ITEM_1UP, ITEM_SHARD_LO, ITEM_SHARD_HI, 999999}
WriterPlayers == {7}
FlagValues == {0, 1, 2, 2147483647}

(***************************************************************************)
(* C arithmetic.                                                           *)
(***************************************************************************)
RECURSIVE BitOr(_, _)
BitOr(a, b) ==
    IF a = 0 THEN b
    ELSE IF b = 0 THEN a
    ELSE (IF a % 2 = 1 \/ b % 2 = 1 THEN 1 ELSE 0) + 2 * BitOr(a \div 2, b \div 2)

Bit(x, i) == (x \div (2 ^ i)) % 2

\* w + 1 on a uint32_t kept as halves: 0xFFFFFFFF + 1 wraps to 0
Inc32(w) ==
    IF w.lo = HALF - 1
    THEN [hi |-> (w.hi + 1) % HALF, lo |-> 0]
    ELSE [hi |-> w.hi, lo |-> w.lo + 1]

\* unsigned a < b, a <= b on halves
Less32(a, b) == a.hi < b.hi \/ (a.hi = b.hi /\ a.lo < b.lo)
LessEq32(a, b) == a = b \/ Less32(a, b)

\* b is the integer a + 1 (no wrap)
IsSucc32(a, b) == a # [hi |-> HALF - 1, lo |-> HALF - 1] /\ b = Inc32(a)

(***************************************************************************)
(* ap_apply_item.  st is the game state it reads and writes:               *)
(* [lives |-> KIRBY_LIVES, shards |-> KIRBY_SHARD_FLAGS,                   *)
(*  mirror |-> AP_SHARD_BITFIELD]; the result is the state it leaves.      *)
(***************************************************************************)
GameNow == [lives  |-> KIRBY_LIVES,
            shards |-> KIRBY_SHARD_FLAGS,
            mirror |-> AP_SHARD_BITFIELD]

\* variants of ApplyOneUp: the increment without the guard, and the guard
\* one too low
ApplyOneUp_Wrap(st) == [st EXCEPT !.lives = (st.lives + 1) % UINT8]
ApplyOneUp_EarlySat(st) ==
    IF st.lives < 254
    THEN [st EXCEPT !.lives = (st.lives + 1) % UINT8]
    ELSE st

\* if (lives < 255u) KIRBY_LIVES = (uint8_t)(lives + 1u);
ApplyOneUp(st) ==
    IF st.lives < 255
    THEN [st EXCEPT !.lives = (st.lives + 1) % UINT8]
    ELSE st

\* variant of ShardIndex: counted from the life item
ShardIndex_FromOneUp(ap_item_id) == ap_item_id - ITEM_1UP

\* shard_index = ap_item_id - (BASE + 2); mask = (uint8_t)(1u << shard_index);
\* (evaluated only for ids of the shard range, where the difference is 0..7)
ShardIndex(ap_item_id) == ap_item_id - ITEM_SHARD_LO
ShardMask(ap_item_id) == (2 ^ ShardIndex(ap_item_id)) % UINT8

\* variants of ApplyShard: the mirror left out, and ^= in place of |=
ApplyShard_NoMirror(ap_item_id, st) ==
    [st EXCEPT !.shards = BitOr(st.shards, ShardMask(ap_item_id))]
ApplyShard_Toggle(ap_item_id, st) ==
    LET mask == ShardMask(ap_item_id)
        flip(x) == IF Bit(x, ShardIndex(ap_item_id)) = 1 THEN x - mask ELSE x + mask
    IN  [st EXCEPT !.mirror = flip(st.mirror), !.shards = flip(st.shards)]

\* variants of ApplyShard: += in place of |=, and = in place of |=
ApplyShard_Add(ap_item_id, st) ==
    [st EXCEPT !.mirror = st.mirror + ShardMask(ap_item_id),
               !.shards = (st.shards + ShardMask(ap_item_id)) % UINT8]
ApplyShard_Assign(ap_item_id, st) ==
    [st EXCEPT !.mirror = ShardMask(ap_item_id),
               !.shards = ShardMask(ap_item_id)]

\* AP_SHARD_BITFIELD |= (uint32_t)mask; KIRBY_SHARD_FLAGS |= mask;
ApplyShard(ap_item_id, st) ==
    [st EXCEPT !.mirror = BitOr(st.mirror, ShardMask(ap_item_id)),
               !.shards = BitOr(st.shards, ShardMask(ap_item_id))]

\* variant of ap_apply_item: the life item taken to be BASE itself
ap_apply_item_BaseIsOneUp(ap_item_id, st) ==
    IF ap_item_id = KIRBY_BASE_OFFSET
    THEN ApplyOneUp(st)
    ELSE IF ap_item_id >= ITEM_SHARD_LO /\ ap_item_id <= ITEM_SHARD_HI
    THEN ApplyShard(ap_item_id, st)
    ELSE st

ap_apply_item(ap_item_id, st) ==
    IF ap_item_id = ITEM_1UP
    THEN ApplyOneUp(st)
    ELSE IF ap_item_id >= ITEM_SHARD_LO /\ ap_item_id <= ITEM_SHARD_HI
    THEN ApplyShard(ap_item_id, st)
    ELSE st

\* ap_apply_item run on each id of ids in turn, from game state st
RECURSIVE ApplyAll(_, _)
ApplyAll(ids, st) ==
    IF ids = << >>
    THEN st
    ELSE ApplyAll(Tail(ids), ap_apply_item(Head(ids), st))

(***************************************************************************)
(* ap_poll_mailbox_c, one action per volatile access.                      *)
(***************************************************************************)
\* variant of Check: the early return left out
Check_NoReturn ==
    /\ pc = "idle"
    /\ polls < MaxPolls
    /\ polls' = polls + 1
    /\ hbAtCall' = AP_DEBUG_HEARTBEAT
    /\ raced' = FALSE
    /\ pc' = "heartbeat"
    /\ UNCHANGED <<host0, lastSender, mailboxIn, debugRegs, gameState, locals, consumed, writerHist>>

\* variant of Check: any non-zero flag word taken as pending
Check_NonZeroPending ==
    /\ pc = "idle"
    /\ polls < MaxPolls
    /\ polls' = polls + 1
    /\ hbAtCall' = AP_DEBUG_HEARTBEAT
    /\ raced' = FALSE
    /\ pc' = IF AP_IN_FLAG = 0 THEN "idle" ELSE "heartbeat"
    /\ UNCHANGED <<host0, lastSender, mailboxIn, debugRegs, gameState, locals, consumed, writerHist>>

\* if (AP_IN_FLAG != 1u) return;
Check ==
    /\ pc = "idle"
    /\ polls < MaxPolls
    /\ polls' = polls + 1
    /\ hbAtCall' = AP_DEBUG_HEARTBEAT
    /\ raced' = FALSE
    /\ pc' = IF AP_IN_FLAG # 1 THEN "idle" ELSE "heartbeat"
    /\ UNCHANGED <<host0, lastSender, mailboxIn, debugRegs, gameState, locals, consumed, writerHist>>

\* variant of Heartbeat: a store of 1 in place of the increment
Heartbeat_Store1 ==
    /\ pc = "heartbeat"
    /\ AP_DEBUG_HEARTBEAT' = [hi |-> 0, lo |-> 1]
    /\ pc' = "read_item"
    /\ UNCHANGED <<host0, lastSender, mailboxIn, AP_DEBUG_LAST_ITEM_ID,
                   AP_DEBUG_LAST_FROM, gameState, locals, polls, hbAtCall,
                   raced, consumed, writerHist>>

\* AP_DEBUG_HEARTBEAT++;
Heartbeat ==
    /\ pc = "heartbeat"
    /\ AP_DEBUG_HEARTBEAT' = Inc32(AP_DEBUG_HEARTBEAT)
    /\ pc' = "read_item"
    /\ UNCHANGED <<host0, lastSender, mailboxIn, AP_DEBUG_LAST_ITEM_ID, AP_DEBUG_LAST_FROM,
                   gameState, locals, polls, hbAtCall, raced, consumed,
                   writerHist>>

\* uint32_t item = AP_IN_ITEM_ID;
ReadItem ==
    /\ pc = "read_item"
    /\ item' = AP_IN_ITEM_ID
    /\ pc' = "read_from"
    /\ UNCHANGED <<host0, lastSender, mailboxIn, debugRegs, gameState, from, polls, hbAtCall,
                   raced, consumed, writerHist>>

\* uint32_t from = AP_IN_PLAYER;
ReadFrom ==
    /\ pc = "read_from"
    /\ from' = AP_IN_PLAYER
    /\ pc' = "dbg_item"
    /\ UNCHANGED <<host0, lastSender, mailboxIn, debugRegs, gameState, item, polls, hbAtCall,
                   raced, consumed, writerHist>>

\* AP_DEBUG_LAST_ITEM_ID = item;
WriteDebugItem ==
    /\ pc = "dbg_item"
    /\ AP_DEBUG_LAST_ITEM_ID' = item
    /\ pc' = "dbg_from"
    /\ UNCHANGED <<host0, lastSender, mailboxIn, AP_DEBUG_HEARTBEAT, AP_DEBUG_LAST_FROM,
                   gameState, locals, polls, hbAtCall, raced, consumed,
                   writerHist>>

\* variants of WriteDebugFrom: `item` stored in place of `from`, and the
\* acknowledge store made here, ahead of the dispatch
WriteDebugFrom_Item ==
    /\ pc = "dbg_from"
    /\ AP_DEBUG_LAST_FROM' = item
    /\ pc' = "apply"
    /\ UNCHANGED <<host0, lastSender, mailboxIn, AP_DEBUG_HEARTBEAT,
                   AP_DEBUG_LAST_ITEM_ID, gameState, locals, polls, hbAtCall,
                   raced, consumed, writerHist>>
WriteDebugFrom_AckEarly ==
    /\ pc = "dbg_from"
    /\ AP_DEBUG_LAST_FROM' = from
    /\ AP_IN_FLAG' = 0
    /\ pc' = "apply"
    /\ UNCHANGED <<host0, lastSender, AP_IN_ITEM_ID, AP_IN_PLAYER,
                   AP_DEBUG_HEARTBEAT, AP_DEBUG_LAST_ITEM_ID, gameState, locals,
                   polls, hbAtCall, raced, consumed, writerHist>>

\* AP_DEBUG_LAST_FROM = from;
WriteDebugFrom ==
    /\ pc = "dbg_from"
    /\ AP_DEBUG_LAST_FROM' = from
    /\ pc' = "apply"
    /\ UNCHANGED <<host0, lastSender, mailboxIn, AP_DEBUG_HEARTBEAT, AP_DEBUG_LAST_ITEM_ID,
                   gameState, locals, polls, hbAtCall, raced, consumed,
                   writerHist>>

\* ap_apply_item(item);
Apply ==
    /\ pc = "apply"
    /\ LET st == ap_apply_item(item, GameNow)
       IN  /\ KIRBY_LIVES' = st.lives
           /\ KIRBY_SHARD_FLAGS' = st.shards
           /\ AP_SHARD_BITFIELD' = st.mirror
    /\ consumed' = Append(consumed, item)
    /\ lastSender' = from
    /\ pc' = "ack"
    /\ UNCHANGED <<host0, mailboxIn, debugRegs, locals, polls, hbAtCall, raced,
                   writerHist>>

\* variants of Ack: the store left out, and a store that keeps a flag the
\* writer set while the call was running
Ack_NoStore ==
    /\ pc = "ack"
    /\ pc' = "idle"
    /\ item' = 0
    /\ from' = 0
    /\ UNCHANGED <<host0, lastSender, mailboxIn, debugRegs, gameState, polls, hbAtCall, raced,
                   consumed, writerHist>>
Ack_KeepRaced ==
    /\ pc = "ack"
    /\ AP_IN_FLAG' = IF raced THEN AP_IN_FLAG ELSE 0
    /\ pc' = "idle"
    /\ item' = 0
    /\ from' = 0
    /\ UNCHANGED <<host0, lastSender, AP_IN_ITEM_ID, AP_IN_PLAYER, debugRegs, gameState, polls,
                   hbAtCall, raced, consumed, writerHist>>

\* variant of Ack: the store made only for an item ap_apply_item handles
Ack_OnlyIfHandled ==
    /\ pc = "ack"
    /\ AP_IN_FLAG' = IF item >= ITEM_1UP /\ item <= ITEM_SHARD_HI
                     THEN 0 ELSE AP_IN_FLAG
    /\ pc' = "idle"
    /\ item' = 0
    /\ from' = 0
    /\ UNCHANGED <<host0, lastSender, AP_IN_ITEM_ID, AP_IN_PLAYER, debugRegs,
                   gameState, polls, hbAtCall, raced, consumed, writerHist>>

\* AP_IN_FLAG = 0u; and the return
Ack ==
    /\ pc = "ack"
    /\ AP_IN_FLAG' = 0
    /\ pc' = "idle"
    /\ item' = 0
    /\ from' = 0
    /\ UNCHANGED <<host0, lastSender, AP_IN_ITEM_ID, AP_IN_PLAYER, debugRegs, gameState, polls,
                   hbAtCall, raced, consumed, writerHist>>

(***************************************************************************)
(* The external writer with no discipline: any store to an input register  *)
(* of the mailbox, at any time.                                            *)
(***************************************************************************)
WriterStoreFlag ==
    /\ wpc = "free"
    /\ \E v \in FlagValues :
         /\ AP_IN_FLAG' = v
         /\ raced' = (v = 1 /\ pc # "idle")
    /\ UNCHANGED <<host0, lastSender, AP_IN_ITEM_ID, AP_IN_PLAYER, debugRegs, gameState, pc,
                   locals, polls, hbAtCall, consumed, writerHist>>

WriterStoreItem ==
    /\ wpc = "free"
    /\ \E v \in WriterItemIDs : AP_IN_ITEM_ID' = v
    /\ UNCHANGED <<host0, lastSender, AP_IN_FLAG, AP_IN_PLAYER, debugRegs, gameState, pc, locals,
                   polls, hbAtCall, raced, consumed, writerHist>>

WriterStorePlayer ==
    /\ wpc = "free"
    /\ \E v \in WriterPlayers : AP_IN_PLAYER' = v
    /\ UNCHANGED <<host0, lastSender, AP_IN_FLAG, AP_IN_ITEM_ID, debugRegs, gameState, pc, locals,
                   polls, hbAtCall, raced, consumed, writerHist>>

(***************************************************************************)
(* The state before the first poll: the mailbox is quiescent; the game     *)
(* state and the heartbeat are whatever the host left there.               *)
(***************************************************************************)
HostStates ==
    { [lives |-> 3,   shards |-> 0,
       heartbeat |-> [hi |-> 0, lo |-> 0]],
      [lives |-> 254, shards |-> 66,
       heartbeat |-> [hi |-> HALF - 1, lo |-> HALF - 1]] }

InitCommon ==
    /\ AP_IN_FLAG = 0
    /\ AP_IN_ITEM_ID = 0
    /\ AP_IN_PLAYER = 0
    /\ AP_DEBUG_LAST_ITEM_ID = 0
    /\ AP_DEBUG_LAST_FROM = 0
    /\ \E h \in HostStates :
         /\ KIRBY_LIVES = h.lives
         /\ KIRBY_SHARD_FLAGS = h.shards
         /\ AP_SHARD_BITFIELD = h.shards
         /\ AP_DEBUG_HEARTBEAT = h.heartbeat
         /\ hbAtCall = h.heartbeat
    /\ pc = "idle"
    /\ item = 0
    /\ from = 0
    /\ polls = 0
    /\ raced = FALSE
    /\ consumed = << >>
    /\ posted = << >>
    /\ host0 = GameNow
    /\ lastSender = 0

Init ==
    /\ InitCommon
    /\ wpc = "free"

Next ==
    \/ Check
    \/ Heartbeat
    \/ ReadItem
    \/ ReadFrom
    \/ WriteDebugItem
    \/ WriteDebugFrom
    \/ Apply
    \/ Ack
    \/ WriterStoreFlag
    \/ WriterStoreItem
    \/ WriterStorePlayer

Spec == Init /\ [][Next]_vars

(***************************************************************************)
(* The external writer that follows the convention of the mailbox: it      *)
(* stores the item id, then the sender, then sets the flag, and stores     *)
(* nothing more until it has read the flag back as 0.                      *)
(***************************************************************************)
WriterPostItem ==
    /\ wpc = "w_item"
    /\ Len(posted) < MaxPosts
    /\ \E v \in AllItemIDs : AP_IN_ITEM_ID' = v
    /\ wpc' = "w_player"
    /\ UNCHANGED <<host0, lastSender, AP_IN_FLAG, AP_IN_PLAYER, debugRegs, gameState, pc, locals,
                   polls, hbAtCall, raced, consumed, posted>>

WriterPostPlayer ==
    /\ wpc = "w_player"
    /\ \E v \in WriterPlayers : AP_IN_PLAYER' = v
    /\ wpc' = "w_flag"
    /\ UNCHANGED <<host0, lastSender, AP_IN_FLAG, AP_IN_ITEM_ID, debugRegs, gameState, pc, locals,
                   polls, hbAtCall, raced, consumed, posted>>

WriterSetPending ==
    /\ wpc = "w_flag"
    /\ AP_IN_FLAG' = 1
    /\ posted' = Append(posted, AP_IN_ITEM_ID)
    /\ wpc' = "w_wait"
    /\ UNCHANGED <<host0, lastSender, AP_IN_ITEM_ID, AP_IN_PLAYER, debugRegs, gameState, pc, locals,
                   polls, hbAtCall, raced, consumed>>

WriterObserveClear ==
    /\ wpc = "w_wait"
    /\ AP_IN_FLAG = 0
    /\ wpc' = "w_item"
    /\ UNCHANGED <<host0, lastSender, mailboxIn, debugRegs, gameState, pc, locals, polls, hbAtCall,
                   raced, consumed, posted>>

InitConv ==
    /\ InitCommon
    /\ wpc = "w_item"

NextConv ==
    \/ Check
    \/ Heartbeat
    \/ ReadItem
    \/ ReadFrom
    \/ WriteDebugItem
    \/ WriteDebugFrom
    \/ Apply
    \/ Ack
    \/ WriterPostItem
    \/ WriterPostPlayer
    \/ WriterSetPending
    \/ WriterObserveClear

SpecConv == InitConv /\ [][NextConv]_vars

(***************************************************************************)
(* ap_apply_item on its own: the call ap_apply_item(item) of the poller,   *)
(* entered with every item id class and a spread of game states, and       *)
(* entered again with the same id (a redelivered message).                 *)
(***************************************************************************)
LivesSamples == {0, 3, 254, 255}
ShardSamples == {0, 129, 255}

ApplyInputs ==
    { [lives |-> l, shards |-> f, mirror |-> m] :
        l \in LivesSamples, f \in 0..(UINT8 - 1), m \in {0} } \cup
    { [lives |-> l, shards |-> f, mirror |-> m] :
        l \in 0..(UINT8 - 1), f \in ShardSamples, m \in {0} }

InitApply ==
    /\ \E id \in AllItemIDs :
         /\ AP_IN_ITEM_ID = id
         /\ item = id
         /\ AP_DEBUG_LAST_ITEM_ID = id
    /\ \E st \in ApplyInputs :
         /\ KIRBY_LIVES = st.lives
         /\ KIRBY_SHARD_FLAGS = st.shards
         /\ AP_SHARD_BITFIELD \in {st.shards, st.mirror}
    /\ AP_IN_FLAG = 1
    /\ AP_IN_PLAYER = 0
    /\ from = 0
    /\ AP_DEBUG_LAST_FROM = 0
    /\ AP_DEBUG_HEARTBEAT = [hi |-> 0, lo |-> 1]
    /\ hbAtCall = [hi |-> 0, lo |-> 0]
    /\ pc = "apply"
    /\ polls = 1
    /\ raced = FALSE
    /\ consumed = << >>
    /\ posted = << >>
    /\ host0 = GameNow
    /\ lastSender = 0
    /\ wpc = "stuck"

\* the same id is handed to ap_apply_item once more
Redeliver ==
    /\ wpc = "stuck"
    /\ pc = "ack"
    /\ Len(consumed) < MaxApply
    /\ pc' = "apply"
    /\ UNCHANGED <<host0, lastSender, mailboxIn, debugRegs, gameState, locals, polls, hbAtCall,
                   raced, consumed, writerHist>>

NextApply ==
    \/ Apply
    \/ Redeliver

SpecApply == InitApply /\ [][NextApply]_vars

(***************************************************************************)
(* Steps the properties speak about.                                       *)
(***************************************************************************)
\* the step on which a call of ap_poll_mailbox_c returns: the early return
\* of the check, or the acknowledge store
PollReturns ==
    \/ pc = "idle" /\ polls' = polls + 1 /\ pc' = "idle"
    \/ pc = "ack" /\ pc' = "idle"

\* the check of a call that follows a call the writer raced
CheckAfterRace == raced /\ pc = "idle" /\ polls' = polls + 1

\* the step that runs ap_apply_item(item)
ApplyStep == pc = "apply" /\ pc' = "ack"

\* ap_apply_item(item) running on the id it ran on just before
ReapplyStep ==
    /\ ApplyStep
    /\ Len(consumed) >= 1
    /\ consumed[Len(consumed)] = item

LastConsumed == consumed[Len(consumed)]
InShardRange(id) == id >= ITEM_SHARD_LO /\ id <= ITEM_SHARD_HI
Saturating(l) == IF l < 255 THEN l + 1 ELSE 255

(***************************************************************************)
(* C1 (as stated): whatever AP_IN_FLAG, AP_IN_ITEM_ID and AP_IN_PLAYER     *)
(* held when ap_poll_mailbox_c was called, AP_IN_FLAG is 0 when the call   *)
(* returns.                                                                *)
(***************************************************************************)
C1_CounterexampleFlagAlwaysCleared ==
    [][PollReturns => AP_IN_FLAG' = 0]_vars

(***************************************************************************)
(* C1 (amended): a call of ap_poll_mailbox_c that reads AP_IN_FLAG as 0 or *)
(* 1 returns with AP_IN_FLAG = 0; a call that reads any other value        *)
(* returns at once and leaves AP_IN_FLAG at that value.                    *)
(***************************************************************************)
C1_FlagClearedWhenBoolean ==
    [][PollReturns =>
         \/ AP_IN_FLAG' = 0
         \/ /\ pc = "idle"
            /\ AP_IN_FLAG \notin {0, 1}
            /\ AP_IN_FLAG' = AP_IN_FLAG]_vars

\* a call that found the flag at 1 has returned, and the flag reads 0
C1_Witness ==
    /\ pc = "idle"
    /\ Len(consumed) >= 1
    /\ AP_IN_FLAG = 0
    /\ AP_DEBUG_LAST_ITEM_ID = LastConsumed

(***************************************************************************)
(* C2: every call of ap_poll_mailbox_c leaves AP_DEBUG_HEARTBEAT exactly 1 *)
(* above its value at the call, with AP_IN_FLAG pending or not.            *)
(***************************************************************************)
C2_CounterexampleHeartbeatEveryCall ==
    [][PollReturns => IsSucc32(hbAtCall', AP_DEBUG_HEARTBEAT')]_vars

(***************************************************************************)
(* C3: with a writer that follows the convention, every message it posts   *)
(* is applied exactly once: the ids handed to ap_apply_item are, in order, *)
(* the ids posted, at most the latest post is still outstanding, and once  *)
(* the flag reads 0 again nothing is outstanding.                          *)
(***************************************************************************)
C3_ExactlyOnce ==
    /\ Len(consumed) <= Len(posted)
    /\ Len(posted) <= Len(consumed) + 1
    /\ consumed = SubSeq(posted, 1, Len(consumed))
    /\ (wpc # "w_wait" \/ AP_IN_FLAG = 0) => consumed = posted

\* two messages were posted and both were applied and acknowledged
C3_Witness ==
    /\ Len(posted) = 2
    /\ consumed = posted
    /\ wpc = "w_item"
    /\ pc = "idle"

(***************************************************************************)
(* C4 (as stated): a message whose flag the writer sets while a call is    *)
(* between its check and its acknowledge store is consumed by the next     *)
(* call.                                                                   *)
(***************************************************************************)
C4_CounterexampleRacedPostConsumedNext ==
    [][CheckAfterRace => pc' = "heartbeat"]_vars

(***************************************************************************)
(* C4 (amended): when the writer sets the flag while a call is between its *)
(* check and its acknowledge store, the call still applies one item only   *)
(* and returns on its acknowledge store, which overwrites the flag with 0; *)
(* unless the writer stores the flag again after that, the next call reads *)
(* 0 and returns without consuming anything: the post is lost.             *)
(***************************************************************************)
C4_RacedPostIsLost ==
    [][/\ (pc = "ack" /\ pc' # pc) => (pc' = "idle" /\ AP_IN_FLAG' = 0)
       /\ CheckAfterRace =>
            /\ AP_IN_FLAG = 0
            /\ pc' = "idle"
            /\ UNCHANGED <<mailboxIn, debugRegs, gameState, consumed>>]_vars

\* a call has returned; while it ran the writer stored an id it had not read
\* and set the flag; the flag reads 0 and another call can follow
C4_Witness ==
    /\ raced
    /\ pc = "idle"
    /\ AP_IN_FLAG = 0
    /\ Len(consumed) >= 1
    /\ AP_IN_ITEM_ID # LastConsumed
    /\ polls < MaxPolls

(***************************************************************************)
(* C5 (as stated): for every item id and every game state, applying the    *)
(* same item a second time leaves KIRBY_LIVES and KIRBY_SHARD_FLAGS as the *)
(* first application left them.                                            *)
(***************************************************************************)
C5_CounterexampleIdempotentForAll ==
    [][ReapplyStep => UNCHANGED <<KIRBY_LIVES, KIRBY_SHARD_FLAGS>>]_vars

(***************************************************************************)
(* C5 (amended): for every item id other than BASE+1, applying the same    *)
(* item a second time leaves KIRBY_LIVES and KIRBY_SHARD_FLAGS as the      *)
(* first application left them; a second BASE+1 adds one more life unless  *)
(* KIRBY_LIVES is 255.                                                     *)
(***************************************************************************)
C5_IdempotentExceptOneUp ==
    [][ReapplyStep =>
         /\ KIRBY_SHARD_FLAGS' = KIRBY_SHARD_FLAGS
         /\ KIRBY_LIVES' = IF item = ITEM_1UP
                           THEN Saturating(KIRBY_LIVES)
                           ELSE KIRBY_LIVES]_vars

\* a shard item has been applied twice in a row
C5_Witness ==
    /\ pc = "ack"
    /\ Len(consumed) = 2
    /\ consumed[1] = consumed[2]
    /\ InShardRange(consumed[1])

(***************************************************************************)
(* C6: for every item id outside [BASE+1, BASE+9], ap_apply_item leaves    *)
(* KIRBY_LIVES and KIRBY_SHARD_FLAGS unchanged.                            *)
(***************************************************************************)
C6_UnrecognizedChangesNothing ==
    [][(ApplyStep /\ (item < ITEM_1UP \/ item > ITEM_SHARD_HI)) =>
         UNCHANGED <<KIRBY_LIVES, KIRBY_SHARD_FLAGS>>]_vars

\* ap_apply_item has run on BASE itself, with lives to gain and bits to set
C6_Witness ==
    /\ pc = "ack"
    /\ consumed = <<KIRBY_BASE_OFFSET>>
    /\ KIRBY_LIVES = 3
    /\ KIRBY_SHARD_FLAGS = 0

(***************************************************************************)
(* C7: ap_apply_item(BASE+1) takes KIRBY_LIVES = L to L+1 for L < 255 and  *)
(* leaves 255 at 255; KIRBY_SHARD_FLAGS is unchanged.                      *)
(***************************************************************************)
C7_OneUpSaturates ==
    [][(ApplyStep /\ item = ITEM_1UP) =>
         /\ KIRBY_LIVES < 255 => KIRBY_LIVES' = KIRBY_LIVES + 1
         /\ KIRBY_LIVES = 255 => KIRBY_LIVES' = 255
         /\ KIRBY_SHARD_FLAGS' = KIRBY_SHARD_FLAGS]_vars

\* the life item has been applied at 254 and again at 255
C7_Witness ==
    /\ pc = "ack"
    /\ consumed = <<ITEM_1UP, ITEM_1UP>>
    /\ KIRBY_LIVES = 255
    /\ KIRBY_SHARD_FLAGS = 129

(***************************************************************************)
(* C8: for every i in 0..7 and every KIRBY_SHARD_FLAGS, ap_apply_item of   *)
(* BASE+2+i sets bit i, keeps every other bit of KIRBY_SHARD_FLAGS and     *)
(* leaves KIRBY_LIVES unchanged.                                           *)
(***************************************************************************)
C8_ShardSetsItsBit ==
    [][\A i \in 0..7 :
         (ApplyStep /\ item = ITEM_SHARD_LO + i) =>
            /\ KIRBY_SHARD_FLAGS' \in 0..(UINT8 - 1)
            /\ \A j \in 0..7 :
                 Bit(KIRBY_SHARD_FLAGS', j) =
                    IF j = i THEN 1 ELSE Bit(KIRBY_SHARD_FLAGS, j)
            /\ KIRBY_LIVES' = KIRBY_LIVES]_vars

\* shard 5 has been applied to flags that had bits 1 and 6 only
C8_Witness ==
    /\ pc = "ack"
    /\ consumed = <<ITEM_SHARD_LO + 5>>
    /\ KIRBY_SHARD_FLAGS = 98

(***************************************************************************)
(* C9: over any calls of ap_poll_mailbox_c and any stores of the writer, a *)
(* bit of KIRBY_SHARD_FLAGS that is set stays set.                         *)
(***************************************************************************)
C9_ShardFlagsMonotonic ==
    [][\A j \in 0..7 :
         Bit(KIRBY_SHARD_FLAGS, j) = 1 => Bit(KIRBY_SHARD_FLAGS', j) = 1]_vars

\* with bits 1 and 6 set from the start, two calls have consumed two
\* different shards
C9_Witness ==
    /\ pc = "idle"
    /\ Len(consumed) = 2
    /\ consumed[1] = ITEM_SHARD_LO
    /\ consumed[2] = ITEM_SHARD_HI
    /\ KIRBY_SHARD_FLAGS = 195

(***************************************************************************)
(* C10: over any calls of ap_poll_mailbox_c and any stores of the writer,  *)
(* KIRBY_LIVES never decreases and stays within 0..255.                    *)
(***************************************************************************)
C10_LivesNeverDecrease ==
    [][/\ KIRBY_LIVES' >= KIRBY_LIVES
       /\ KIRBY_LIVES' \in 0..255]_vars

\* two calls have consumed the life item, the second with KIRBY_LIVES at 255
C10_Witness ==
    /\ pc = "idle"
    /\ Len(consumed) = 2
    /\ consumed[1] = ITEM_1UP
    /\ consumed[2] = ITEM_1UP
    /\ KIRBY_LIVES = 255

(***************************************************************************)
(* More steps and values the properties speak about.                       *)
(***************************************************************************)
\* the check of a call
CheckStep == pc = "idle" /\ polls' = polls + 1

Unrecognized(id) == id < ITEM_1UP \/ id > ITEM_SHARD_HI
PcValues == {"idle", "heartbeat", "read_item", "read_from", "dbg_item",
             "dbg_from", "apply", "ack"}
Zero32 == [hi |-> 0, lo |-> 0]
Max32 == [hi |-> HALF - 1, lo |-> HALF - 1]

(***************************************************************************)
(* C11: every bit i of KIRBY_SHARD_FLAGS that is set and was not set       *)
(* before the first call was set by a consumed message with item id        *)
(* BASE+2+i; KIRBY_SHARD_FLAGS changes only on the step that applies a     *)
(* shard item, never in a call that found nothing pending nor on an item   *)
(* outside the shard range.                                                *)
(***************************************************************************)
C11_ShardBitsComeFromShardItems ==
    /\ [](\A i \in 0..7 :
            Bit(KIRBY_SHARD_FLAGS, i) = 1 =>
               \/ Bit(host0.shards, i) = 1
               \/ \E k \in 1..Len(consumed) : consumed[k] = ITEM_SHARD_LO + i)
    /\ [][KIRBY_SHARD_FLAGS' # KIRBY_SHARD_FLAGS =>
            /\ ApplyStep
            /\ InShardRange(item)
            /\ Bit(KIRBY_SHARD_FLAGS, item - ITEM_SHARD_LO) = 0
            /\ KIRBY_SHARD_FLAGS' =
                 KIRBY_SHARD_FLAGS + 2 ^ (item - ITEM_SHARD_LO)]_vars

\* from no bits at all, a call that found nothing pending, a call that
\* consumed an unrecognized id and a call that consumed shard 7 have run
C11_Witness ==
    /\ pc = "idle"
    /\ polls = 3
    /\ host0.shards = 0
    /\ consumed = <<999999, ITEM_SHARD_HI>>
    /\ KIRBY_SHARD_FLAGS = 128

(***************************************************************************)
(* C12: a call that finds a pending message with an unrecognized item id   *)
(* still acknowledges it: it runs to its acknowledge store, AP_IN_FLAG is  *)
(* 0 when it returns, none of its steps changes KIRBY_LIVES or             *)
(* KIRBY_SHARD_FLAGS, and it is in no position but those of the code.      *)
(***************************************************************************)
C12_UnknownItemAcknowledged ==
    [][/\ (pc # "apply" \/ Unrecognized(item)) =>
            UNCHANGED <<KIRBY_LIVES, KIRBY_SHARD_FLAGS>>
       /\ (pc = "apply" /\ Unrecognized(item) /\ pc' # pc) => pc' = "ack"
       /\ (pc = "ack" /\ Unrecognized(item) /\ pc' # pc) =>
            (pc' = "idle" /\ AP_IN_FLAG' = 0)
       /\ pc' \in PcValues]_vars

\* the scenario of the spec: item 999999 was pending, the call has returned
C12_Witness ==
    /\ pc = "idle"
    /\ consumed = <<999999>>
    /\ AP_DEBUG_LAST_ITEM_ID = 999999
    /\ AP_IN_FLAG = 0
    /\ KIRBY_LIVES = 3
    /\ KIRBY_SHARD_FLAGS = 0

(***************************************************************************)
(* C13: a call made while AP_IN_FLAG is 0 returns at once and leaves       *)
(* KIRBY_LIVES, KIRBY_SHARD_FLAGS, AP_SHARD_BITFIELD, AP_IN_FLAG,          *)
(* AP_IN_ITEM_ID, AP_IN_PLAYER, AP_DEBUG_LAST_ITEM_ID and                  *)
(* AP_DEBUG_LAST_FROM unchanged.                                           *)
(***************************************************************************)
C13_IdlePollChangesNothing ==
    [][(CheckStep /\ AP_IN_FLAG = 0) =>
         /\ pc' = "idle"
         /\ UNCHANGED <<KIRBY_LIVES, KIRBY_SHARD_FLAGS, AP_SHARD_BITFIELD,
                        AP_IN_FLAG, AP_IN_ITEM_ID, AP_IN_PLAYER,
                        AP_DEBUG_LAST_ITEM_ID, AP_DEBUG_LAST_FROM>>]_vars

\* every call was made with a life item in the mailbox and the flag down,
\* and none consumed it
C13_Witness ==
    /\ pc = "idle"
    /\ polls = MaxPolls
    /\ consumed = << >>
    /\ AP_IN_FLAG = 0
    /\ AP_IN_ITEM_ID = ITEM_1UP
    /\ KIRBY_LIVES = 3

(***************************************************************************)
(* C14: between calls, once a message was consumed, AP_DEBUG_LAST_ITEM_ID  *)
(* and AP_DEBUG_LAST_FROM hold the item id and the sender of the message   *)
(* consumed last, recognized or not; while none was consumed they hold     *)
(* what they held before the first call.                                   *)
(***************************************************************************)
C14_DebugSnapshotIsLastConsumed ==
    pc = "idle" =>
       IF consumed = << >>
       THEN AP_DEBUG_LAST_ITEM_ID = 0 /\ AP_DEBUG_LAST_FROM = 0
       ELSE AP_DEBUG_LAST_ITEM_ID = LastConsumed /\ AP_DEBUG_LAST_FROM = lastSender

\* a shard, then an unrecognized id from sender 7, were consumed, and a
\* third call consumed nothing
C14_Witness ==
    /\ pc = "idle"
    /\ polls = 3
    /\ consumed = <<ITEM_SHARD_LO, 999999>>
    /\ lastSender = 7
    /\ AP_DEBUG_LAST_ITEM_ID = 999999
    /\ AP_DEBUG_LAST_FROM = 7

(***************************************************************************)
(* C15 (as stated): for every starting value of the 32-bit counter,        *)
(* AP_DEBUG_HEARTBEAT is never smaller after a call than before it.        *)
(***************************************************************************)
C15_CounterexampleHeartbeatMonotonic ==
    [][PollReturns => LessEq32(hbAtCall', AP_DEBUG_HEARTBEAT')]_vars

(***************************************************************************)
(* C15 (amended): AP_DEBUG_HEARTBEAT is never smaller after a call than    *)
(* before it, except that a call which consumes a message while the        *)
(* counter is 0xFFFFFFFF wraps it to 0.                                    *)
(***************************************************************************)
C15_HeartbeatMonotonicUntilWrap ==
    [][PollReturns =>
         \/ LessEq32(hbAtCall', AP_DEBUG_HEARTBEAT')
         \/ /\ hbAtCall' = Max32
            /\ AP_DEBUG_HEARTBEAT' = Zero32
            /\ pc = "ack"]_vars

\* a call entered with the counter at 0xFFFFFFFF has returned with it at 0
C15_Witness ==
    /\ pc = "idle"
    /\ hbAtCall = Max32
    /\ AP_DEBUG_HEARTBEAT = Zero32
    /\ Len(consumed) = 1

(***************************************************************************)
(* C16: when AP_SHARD_BITFIELD holds KIRBY_SHARD_FLAGS in its low 8 bits   *)
(* and 0 above them before the first call, and only the poller writes      *)
(* them, it still does after every call.                                   *)
(***************************************************************************)
C16_MirrorFollowsShardFlags ==
    (/\ host0.mirror = host0.shards
     /\ pc = "idle")
    => /\ AP_SHARD_BITFIELD % UINT8 = KIRBY_SHARD_FLAGS
       /\ AP_SHARD_BITFIELD \div UINT8 = 0

\* starting from 66 in both, calls have consumed shards 0 and 7
C16_Witness ==
    /\ pc = "idle"
    /\ host0.mirror = 66
    /\ host0.shards = 66
    /\ consumed = <<ITEM_SHARD_LO, ITEM_SHARD_HI>>
    /\ AP_SHARD_BITFIELD = 195

(***************************************************************************)
(* C17: a shard item posted, consumed, posted again and consumed again     *)
(* leaves KIRBY_SHARD_FLAGS, AP_SHARD_BITFIELD and KIRBY_LIVES after the   *)
(* second call as they were after the first: the second application        *)
(* changes none of them, and no other step of a call writes them.          *)
(***************************************************************************)
C17_ShardRedeliveryChangesNothing ==
    [][(pc # "apply" \/ (ReapplyStep /\ InShardRange(item))) =>
         UNCHANGED <<KIRBY_SHARD_FLAGS, AP_SHARD_BITFIELD, KIRBY_LIVES>>]_vars

\* the writer posted shard 3 twice and both posts were consumed
C17_Witness ==
    /\ pc = "idle"
    /\ wpc = "w_item"
    /\ posted = <<ITEM_SHARD_LO + 3, ITEM_SHARD_LO + 3>>
    /\ consumed = posted
    /\ Bit(KIRBY_SHARD_FLAGS, 3) = 1

(***************************************************************************)
(* C18: only the value 1 of AP_IN_FLAG is pending: a call that reads any   *)
(* other value returns at once, reads no item, applies nothing, writes no  *)
(* mailbox register and no game state, and leaves AP_IN_FLAG at the value. *)
(***************************************************************************)
C18_OnlyOneIsPending ==
    [][(CheckStep /\ AP_IN_FLAG # 1) =>
         /\ pc' = "idle"
         /\ UNCHANGED <<mailboxIn, debugRegs, gameState, locals, consumed>>]_vars

\* every call was made with a flag word other than 0 and 1 and none
\* consumed the shard item in the mailbox
C18_Witness ==
    /\ pc = "idle"
    /\ polls = MaxPolls
    /\ consumed = << >>
    /\ AP_IN_FLAG = 2147483647
    /\ AP_IN_ITEM_ID = ITEM_SHARD_LO
    /\ KIRBY_SHARD_FLAGS = 0
    /\ AP_DEBUG_HEARTBEAT = Zero32

(***************************************************************************)
(* C19: the acknowledge store is the last write of a consuming call: when  *)
(* the writer that posted a message reads AP_IN_FLAG back as 0, the call   *)
(* has returned, the game state holds the effect of every posted message   *)
(* and the debug snapshot holds the item id and sender of that message.    *)
(***************************************************************************)
C19_AckIsLastWrite ==
    (wpc = "w_wait" /\ AP_IN_FLAG = 0) =>
       /\ pc = "idle"
       /\ consumed = posted
       /\ GameNow = ApplyAll(posted, host0)
       /\ AP_DEBUG_LAST_ITEM_ID = posted[Len(posted)]
       /\ AP_DEBUG_LAST_ITEM_ID = AP_IN_ITEM_ID
       /\ AP_DEBUG_LAST_FROM = AP_IN_PLAYER

\* the writer is waiting on its second post, a life item after a shard, and
\* the flag is back at 0
C19_Witness ==
    /\ wpc = "w_wait"
    /\ AP_IN_FLAG = 0
    /\ posted = <<ITEM_SHARD_HI, ITEM_1UP>>
    /\ KIRBY_LIVES = 4
    /\ KIRBY_SHARD_FLAGS = 128

====
